---- MODULE Spec2Model ----
\* A model of scripts/mybgg/bgg_client.py: the BGGClient request/retry path
\* (_make_request), the batching of game_list, and the extraction hooks of
\* _collection_to_games and _games_list_to_games.
EXTENDS Integers, Sequences, FiniteSets, TLC

\* ---------------------------------------------------------------- bounds

\* Longest id list handed to game_list.
MaxIds == 201
\* Most children of the root of an error document.
MaxKids == 2
\* Ghost cap on the network attempts counted within one _make_request call.
AttemptCap == 14
\* Most votes one category of a player-count group holds.
MaxVotes == 15
\* Most player-count groups of a poll built from the sample listings.
MaxGroups == 3

\* ------------------------------------------------------- program constants

ChunkSize == 100
ConnRetryLimit == 3
AcceptedRetryLimit == 10
GatewayRetryLimit == 3
ConnRetryDelay == 2
AcceptedRetryDelay == 5
GatewayRetryDelay == 2

None == "None"

\* ------------------------------------------------------------ sequences

RECURSIVE Flatten(_)
Flatten(ss) == IF ss = <<>> THEN <<>> ELSE Head(ss) \o Flatten(Tail(ss))

Range(s) == {s[i] : i \in DOMAIN s}

SeqsUpTo(S, n) == UNION {[1..k -> S] : k \in 0..n}

\* ------------------------------------------------------- error documents
\* An XML element as ElementTree sees it: its text (None when it has none)
\* and its child elements in document order.

Elem(text, kids) == [text |-> text, kids |-> kids]

\* Elements three levels below the root.
Level3 == {Elem("deep", <<>>)}
\* Elements two levels below the root.
Level2 == {Elem("m1", <<>>)} \cup {Elem(None, <<d>>) : d \in Level3}
\* Elements directly below the root.
Level1 == {Elem("top", <<>>)}
            \cup {Elem(None, ks) : ks \in SeqsUpTo(Level2, 2) \ {<<>>}}

Doc(tag, kids) == [wellformed |-> TRUE, tag |-> tag, kids |-> kids]
Malformed == [wellformed |-> FALSE, tag |-> None, kids |-> <<>>]
\* No body: before any status-200 response.
NoBody == [wellformed |-> FALSE, tag |-> "absent", kids |-> <<>>]

ErrorDocs == {Doc("errors", ks) : ks \in SeqsUpTo(Level1, MaxKids)}

\* ------------------------------------------------------------ vote polls
\* A string is a sequence of one-character strings, so that lower() and
\* replace(" ", "_") are computed character by character.

UpperLetters == <<"A","B","C","D","E","F","G","H","I","J","K","L","M",
                  "N","O","P","Q","R","S","T","U","V","W","X","Y","Z">>
LowerLetters == <<"a","b","c","d","e","f","g","h","i","j","k","l","m",
                  "n","o","p","q","r","s","t","u","v","w","x","y","z">>

RECURSIVE ZipMap(_, _)
ZipMap(from, to) ==
    IF from = <<>> THEN <<>>
    ELSE (Head(from) :> Head(to)) @@ ZipMap(Tail(from), Tail(to))

LowerMap == ZipMap(UpperLetters, LowerLetters)

\* str.lower() on one character: only the upper-case letters change.
LowerChar(c) == IF c \in DOMAIN LowerMap THEN LowerMap[c] ELSE c

\* value.lower().replace(" ", "_")
NormaliseValue(v) ==
    [i \in DOMAIN v |-> IF LowerChar(v[i]) = " " THEN "_" ELSE LowerChar(v[i])]

KeyBest == <<"b","e","s","t">>
KeyRecommended == <<"r","e","c","o","m","m","e","n","d","e","d">>
KeyNotRecommended == <<"n","o","t","_">> \o KeyRecommended

RECURSIVE VotesDict(_)
\* The dict comprehension of numplayers_to_result: a later entry with the
\* same normalised key replaces an earlier one.
VotesDict(results) ==
    IF results = <<>> THEN <<>>
    ELSE LET n == Len(results)
         IN  (NormaliseValue(results[n].value) :> results[n].numvotes)
                 @@ VotesDict(SubSeq(results, 1, n - 1))

\* numplayers_to_result: the classification of one player-count group, or
\* "KeyError" when the lookup of a category the dict does not hold raises.
NumplayersToResult(results) ==
    LET parsed == VotesDict(results)
        result == IF parsed = <<>>
                  THEN (KeyBest :> 0) @@ (KeyRecommended :> 0) @@ (KeyNotRecommended :> 0)
                  ELSE parsed
    IN  IF ~({KeyBest, KeyRecommended, KeyNotRecommended} \subseteq DOMAIN result)
        THEN "KeyError"
        ELSE IF ~(result[KeyBest] + result[KeyRecommended] > result[KeyNotRecommended])
        THEN "not_recommended"
        ELSE IF result[KeyBest] > 10 /\ result[KeyBest] > result[KeyRecommended]
        THEN "best"
        ELSE "recommended"

RECURSIVE SelectSeq2(_, _)
\* The list comprehension [x for x in s if x.result # drop].
SelectSeq2(s, drop) ==
    IF s = <<>> THEN <<>>
    ELSE IF Head(s).result # drop THEN <<Head(s)>> \o SelectSeq2(Tail(s), drop)
    ELSE SelectSeq2(Tail(s), drop)

\* Mutant: the single-entry override decided before the filter.
SuggestedNumplayersOverrideFirst(numplayers) ==
    LET fixed == IF Len(numplayers) = 1
                 THEN <<[numplayers[1] EXCEPT !.result = "best"]>>
                 ELSE numplayers
        kept == SelectSeq2(fixed, "not_recommended")
    IN  [i \in DOMAIN kept |-> <<kept[i].numplayers, kept[i].result>>]

\* suggested_numplayers: numplayers is the list of parsed groups, each a
\* record [numplayers, result].
SuggestedNumplayers(numplayers) ==
    LET kept == SelectSeq2(numplayers, "not_recommended")
        fixed == IF Len(kept) = 1
                 THEN <<[kept[1] EXCEPT !.result = "best"]>>
                 ELSE kept
    IN  [i \in DOMAIN fixed |-> <<fixed[i].numplayers, fixed[i].result>>]

\* The parse of the groups of one item: each group's results array goes
\* through numplayers_to_result as the group is parsed.
ParsedGroups(groups) ==
    [i \in DOMAIN groups |->
        [numplayers |-> groups[i].numplayers,
         result |-> NumplayersToResult(groups[i].results)]]

\* ------------------------------------------------------- item documents

Raise(exc, msg, status, u, texts) ==
    [kind |-> "raise", exc |-> exc, msg |-> msg, status |-> status,
     url |-> u, texts |-> texts]
Return(v) == [kind |-> "return", value |-> v]
\* The public call has not ended.
NoOutcome == [kind |-> "none"]
\* No url: outside _make_request, and in failures that carry none.
NoUrl == [path |-> None, ids |-> <<>>, username |-> None]

\* The scalar fields of a catalog item that the processor requires
\* (thumbnail is required=False).
RequiredFields == {"id", "type", "name", "description", "weight", "rank",
                   "rating", "playing_time"}

Result(value, numvotes) == [value |-> value, numvotes |-> numvotes]
Group(numplayers, results) == [numplayers |-> numplayers, results |-> results]

ValueBest == <<"B","e","s","t">>
ValueRecommended == <<"R","e","c","o","m","m","e","n","d","e","d">>
ValueNotRecommended == <<"N","o","t"," ">> \o ValueRecommended

Votes(b, r, n) ==
    <<Result(ValueBest, b), Result(ValueRecommended, r), Result(ValueNotRecommended, n)>>

\* The item payloads the modelled server answers a catalog request with: the
\* fields present and the poll groups; the id is the requested one.
ThingTemplates ==
    { [fields |-> RequiredFields,
       groups |-> <<Group("1", Votes(0, 1, 5)), Group("2", Votes(15, 2, 1)),
                    Group("3", Votes(3, 4, 1))>>],
      [fields |-> RequiredFields,
       groups |-> <<Group("1", Votes(0, 1, 5)), Group("2", Votes(3, 4, 1))>>],
      [fields |-> RequiredFields \ {"name"},
       groups |-> <<Group("1", Votes(3, 4, 1))>>],
      [fields |-> RequiredFields,
       groups |-> <<Group("1", <<Result(ValueBest, 12)>>)>>] }

ThingItem(id, t) == [id |-> id, fields |-> t.fields, groups |-> t.groups]

\* The bodies a catalog request for the ids of chunk c may be answered with:
\* one item per requested id, no item for the first id, or no item at all.
ThingDocs(c) ==
    {Doc("items", [i \in DOMAIN c |-> ThingItem(c[i], t)]) : t \in ThingTemplates}
        \cup {Doc("items", [i \in DOMAIN Tail(c) |-> ThingItem(Tail(c)[i], t)]) :
                t \in {t \in ThingTemplates : Len(t.groups) = 3}}
        \cup {Doc("items", <<>>)}

\* The parse of one catalog item: the first missing required field or failing
\* hook raises; otherwise the record.
ParseThingItem(item) ==
    LET parsed == ParsedGroups(item.groups)
    IN  IF ~(RequiredFields \subseteq item.fields)
        THEN [ok |-> FALSE, exc |-> "MissingValue"]
        ELSE IF \E i \in DOMAIN parsed : parsed[i].result = "KeyError"
        THEN [ok |-> FALSE, exc |-> "KeyError"]
        ELSE [ok |-> TRUE,
              value |-> [id |-> item.id,
                         suggested_numplayers |-> SuggestedNumplayers(parsed)]]

\* The array parse both processors share, given each item's parse in document
\* order: the first failure leaves the whole parse.
ParsedArray(out) ==
    LET bad == {i \in DOMAIN out : ~out[i].ok}
    IN  IF bad # {}
        THEN [ok |-> FALSE, exc |-> out[CHOOSE i \in bad : \A j \in bad : i <= j].exc]
        ELSE [ok |-> TRUE, value |-> [i \in DOMAIN out |-> out[i].value]]

\* _games_list_to_games
GamesListToGames(data) ==
    ParsedArray([i \in DOMAIN data.kids |-> ParseThingItem(data.kids[i])])

\* --- collection documents

StatusAttributes == <<"fortrade", "own", "preordered", "prevowned", "want",
                      "wanttobuy", "wanttoplay", "wishlist">>

Digits == <<"0","1","2","3","4","5","6","7","8","9">>
IsDigit(c) == \E d \in DOMAIN Digits : Digits[d] = c
DigitValue(c) == (CHOOSE d \in DOMAIN Digits : Digits[d] = c) - 1

RECURSIVE ParseInt(_)
\* int() of a non-empty digit string.
ParseInt(cs) ==
    IF cs = <<>> THEN 0
    ELSE ParseInt(SubSeq(cs, 1, Len(cs) - 1)) * 10 + DigitValue(cs[Len(cs)])

IsInt(cs) == cs # <<>> /\ \A i \in DOMAIN cs : IsDigit(cs[i])

\* after_status_hook: the attributes whose value is "1", in processor order.
AfterStatusHook(status) ==
    LET keep(a) == IF status[a] = "1" THEN <<a>> ELSE <<>>
    IN  Flatten([i \in DOMAIN StatusAttributes |-> keep(StatusAttributes[i])])

ParseCollectionItem(item) ==
    IF ~IsInt(item.numplays)
    THEN [ok |-> FALSE, exc |-> "InvalidPrimitiveValue"]
    ELSE [ok |-> TRUE,
          value |-> [id |-> item.objectid, name |-> item.name,
                     tags |-> AfterStatusHook(item.status),
                     numplays |-> ParseInt(item.numplays)]]

\* _collection_to_games
CollectionToGames(data) ==
    ParsedArray([i \in DOMAIN data.kids |-> ParseCollectionItem(data.kids[i])])

StatusWith(on) == [a \in Range(StatusAttributes) |-> IF a \in on THEN "1" ELSE "0"]

CollectionItems ==
    { [objectid |-> 1, name |-> "g1", status |-> StatusWith({"own"}), numplays |-> <<"0">>],
      [objectid |-> 2, name |-> "g2", status |-> StatusWith({"own", "wishlist"}),
       numplays |-> <<"1","2">>],
      [objectid |-> 3, name |-> "g3", status |-> StatusWith({}), numplays |-> <<"x">>] }

CollectionDocs == {Doc("items", is) : is \in SeqsUpTo(CollectionItems, 2)}

\* ------------------------------------------------------- request policy

Statuses == {202, 540, 404, 429, 500, 504}

Retry(delay) == [act |-> "retry", delay |-> delay]
Fail(failure) == [act |-> "raise", failure |-> failure]
Pass(body) == [act |-> "return", value |-> body]

\* Mutant: the connection retry test off by one.
OnConnectionErrorInclusive(t) ==
    IF t <= ConnRetryLimit
    THEN Retry(ConnRetryDelay)
    ELSE Fail(Raise("BGGException", "closed_connection", 0, NoUrl, <<>>))

\* except requests.exceptions.ConnectionError, with the call's tries
OnConnectionError(t) ==
    IF t < ConnRetryLimit
    THEN Retry(ConnRetryDelay)
    ELSE Fail(Raise("BGGException", "closed_connection", 0, NoUrl, <<>>))

\* Mutant: the 202 retry test off by one.
OnStatusInclusive(s, t, u) ==
    IF s = 202 /\ t <= AcceptedRetryLimit
    THEN Retry(AcceptedRetryDelay)
    ELSE IF s = 540 /\ t < GatewayRetryLimit
    THEN Retry(GatewayRetryDelay)
    ELSE Fail(Raise("BGGException", "status_code", s, u, <<>>))

\* Mutant: the gateway branch tests the 504 its comment names.
OnStatusGateway504(s, t, u) ==
    IF s = 202 /\ t < AcceptedRetryLimit
    THEN Retry(AcceptedRetryDelay)
    ELSE IF s = 504 /\ t < GatewayRetryLimit
    THEN Retry(GatewayRetryDelay)
    ELSE Fail(Raise("BGGException", "status_code", s, u, <<>>))

\* if response.status_code != 200, with the call's tries and response.url
OnStatus(s, t, u) ==
    IF s = 202 /\ t < AcceptedRetryLimit
    THEN Retry(AcceptedRetryDelay)
    ELSE IF s = 540 /\ t < GatewayRetryLimit
    THEN Retry(GatewayRetryDelay)
    ELSE Fail(Raise("BGGException", "status_code", s, u, <<>>))

\* Mutant: the texts of the root's children instead of their children's.
ErrorTextsOfChildren(tree) == [n \in DOMAIN tree.kids |-> tree.kids[n].text]

\* [subnode.text for node in tree for subnode in node]
ErrorTexts(tree) ==
    Flatten([n \in DOMAIN tree.kids |->
               [m \in DOMAIN tree.kids[n].kids |-> tree.kids[n].kids[m].text]])

\* The tail of _make_request on status 200: fromstring, the errors check,
\* the return of the body.
OnBody(body, u) ==
    IF ~body.wellformed
    THEN Fail(Raise("ParseError", None, 0, NoUrl, <<>>))
    ELSE IF body.tag = "errors"
    THEN Fail(Raise("BGGException", "errors", 0, u, ErrorTexts(body)))
    ELSE Pass(body)

\* chunks(l, n): the slice l[i:i + n] for the k-th i of range(0, len(l), n)
Chunk(l, n, k) ==
    LET i == (k - 1) * n
        j == IF i + n < Len(l) THEN i + n ELSE Len(l)
    IN  SubSeq(l, i + 1, j)
\* Mutant: the range stops one short.
HasChunkShort(l, n, k) == (k - 1) * n < Len(l) - 1
\* whether range(0, len(l), n) holds a k-th value
HasChunk(l, n, k) == (k - 1) * n < Len(l)

ThingUrl(c) == [path |-> "/thing/?stats=1&id=", ids |-> c, username |-> None]
CollectionUrl(user) == [path |-> "/collection", ids |-> <<>>, username |-> user]

\* ---------------------------------------------------------------- state

VARIABLES
    op,            \* the public call in progress
    pc,            \* "idle", "loop" (game_list's for), "request" (in
                   \* _make_request), "extract" (body in hand), "done"
    ids,           \* game_list's argument
    chunk,         \* index of the chunk game_list is at
    games,         \* game_list's accumulator
    url,           \* the url of the running _make_request
    tries,         \* the tries argument of the running _make_request
    data,          \* the body _make_request returned to collection or game_list
    outcome,       \* what the public call returned or raised
    attempts,      \* ghost: requester.get calls of the running _make_request
    nConn,         \* ghost: connection failures of the running _make_request
    n202,          \* ghost: 202 responses of the running _make_request
    n540,          \* ghost: 540 responses of the running _make_request
    slept,         \* ghost: seconds slept by the running _make_request
    requests,      \* ghost: the urls of the _make_request calls made
    chunkRecords,  \* ghost: the records extracted from each chunk
    lastEvent,     \* ghost: what the last requester.get gave: "none",
                   \* "ConnectionError" or the status code as a string
    received,      \* ghost: the body of the last status-200 response
    pollIn,        \* the player-count groups of the item being parsed
    pollParsed,    \* the groups parsed so far, each with its classification
    pollOut,       \* what the suggested_numplayers hook gave back
    pollPc         \* "none", "groups" (parsing them), "raised", "done"

vars == <<op, pc, ids, chunk, games, url, tries, data, outcome, attempts, nConn,
          n202, n540, slept, requests, chunkRecords, lastEvent,
          received, pollIn, pollParsed, pollOut, pollPc>>

pollVars == <<pollIn, pollParsed, pollOut, pollPc>>
callVars == <<op, pc, ids, chunk, games, data, outcome, requests, chunkRecords,
              lastEvent, received>>
\* The locals and ghosts of one _make_request call.
frameVars == <<url, tries, attempts, nConn, n202, n540, slept>>

\* --- inputs

IdLens ==
    ({0, 1, 2, ChunkSize - 1, ChunkSize, ChunkSize + 1, 2 * ChunkSize - 1,
      2 * ChunkSize} \cup (2 * ChunkSize + 1 .. MaxIds)) \cap (0 .. MaxIds)

IdLists ==
    UNION {{[i \in 1..n |-> i], [i \in 1..n |-> (i % 3) + 1]} : n \in IdLens}

Users == {"u1"}

\* Error documents answered to collection and game_list requests.
FewErrorDocs ==
    {Doc("errors", <<Elem(None, <<Elem("m1", <<>>)>>)>>),
     Doc("errors", <<Elem("top", <<>>)>>)}

\* The bodies a status-200 response to the running request may carry.
Bodies ==
    CASE pc # "request" -> {}
      [] op = "execute" -> ErrorDocs \cup CollectionDocs \cup {Malformed}
      [] op = "collection" -> FewErrorDocs \cup CollectionDocs \cup {Malformed}
      [] op = "game_list" -> FewErrorDocs \cup ThingDocs(url.ids) \cup {Malformed}

CallIdle ==
    /\ op = None /\ pc = "idle" /\ ids = <<>> /\ chunk = 0 /\ games = <<>>
    /\ url = NoUrl /\ tries = 0 /\ data = NoBody /\ outcome = NoOutcome /\ attempts = 0
    /\ nConn = 0 /\ n202 = 0 /\ n540 = 0 /\ slept = 0 /\ requests = <<>>
    /\ chunkRecords = <<>> /\ lastEvent = "none" /\ received = NoBody

PollIdle == pollIn = <<>> /\ pollParsed = <<>> /\ pollOut = None /\ pollPc = "none"

Init == CallIdle /\ PollIdle

\* --- _make_request

\* The entry of _make_request(url) with tries = 0.
StartRequest(u) ==
    /\ pc' = "request"
    /\ url' = u
    /\ tries' = 0
    /\ attempts' = 0 /\ nConn' = 0 /\ n202' = 0 /\ n540' = 0 /\ slept' = 0
    /\ lastEvent' = "none" /\ received' = NoBody
    /\ requests' = Append(requests, u)

\* Mutant: the recursive call passes tries on unchanged.
DoRetrySameTries(delay) ==
    /\ tries' = tries
    /\ slept' = slept + delay
    /\ UNCHANGED <<op, pc, ids, chunk, games, url, data, outcome, requests,
                   chunkRecords>>

\* time.sleep(delay); return self._make_request(url, params, tries + 1)
DoRetry(delay) ==
    /\ tries' = tries + 1
    /\ slept' = slept + delay
    /\ UNCHANGED <<op, pc, ids, chunk, games, url, data, outcome, requests,
                   chunkRecords>>

\* An exception leaves _make_request and, uncaught, the public call.
DoRaise(failure) ==
    /\ pc' = "done"
    /\ outcome' = failure
    /\ UNCHANGED <<op, ids, chunk, games, url, tries, data, slept, requests,
                   chunkRecords>>

\* return response.text: to the caller of execute, or into the data of
\* collection and game_list, whose _make_request frame is then gone.
DoReturn(body) ==
    IF op = "execute"
    THEN /\ pc' = "done"
         /\ outcome' = Return(body)
         /\ attempts' = attempts + 1
         /\ UNCHANGED <<op, ids, chunk, games, url, tries, data, nConn, n202, n540,
                        slept, requests, chunkRecords>>
    ELSE /\ pc' = "extract"
         /\ data' = body
         /\ url' = NoUrl /\ tries' = 0 /\ attempts' = 0 /\ nConn' = 0 /\ n202' = 0
         /\ n540' = 0 /\ slept' = 0
         /\ UNCHANGED <<op, ids, chunk, games, outcome, requests, chunkRecords>>

Attempting == pc = "request" /\ attempts < AttemptCap

\* requester.get raises ConnectionError.
ConnectionFails ==
    /\ Attempting
    /\ attempts' = attempts + 1
    /\ nConn' = nConn + 1
    /\ lastEvent' = "ConnectionError"
    /\ UNCHANGED <<n202, n540, received, pollVars>>
    /\ LET r == OnConnectionError(tries)
       IN  IF r.act = "retry" THEN DoRetry(r.delay) ELSE DoRaise(r.failure)

\* requester.get returns a response whose status is not 200.
StatusResponse(s) ==
    /\ Attempting
    /\ attempts' = attempts + 1
    /\ n202' = IF s = 202 THEN n202 + 1 ELSE n202
    /\ n540' = IF s = 540 THEN n540 + 1 ELSE n540
    /\ lastEvent' = ToString(s)
    /\ UNCHANGED <<nConn, received, pollVars>>
    /\ LET r == OnStatus(s, tries, url)
       IN  IF r.act = "retry" THEN DoRetry(r.delay) ELSE DoRaise(r.failure)

\* requester.get returns a response with status 200 and this body.
OkResponse(body) ==
    /\ Attempting
    /\ lastEvent' = "200"
    /\ received' = body
    /\ UNCHANGED pollVars
    /\ LET r == OnBody(body, url)
       IN  IF r.act = "raise"
           THEN /\ attempts' = attempts + 1
                /\ UNCHANGED <<nConn, n202, n540>>
                /\ DoRaise(r.failure)
           ELSE DoReturn(r.value)

\* --- the public calls

\* _make_request called on its own.
CallExecute ==
    /\ pc = "idle"
    /\ op' = "execute"
    /\ StartRequest(CollectionUrl("u1"))
    /\ UNCHANGED <<ids, chunk, games, data, outcome, chunkRecords, pollVars>>

\* collection, up to its call of _make_request
CallCollection(user) ==
    /\ pc = "idle"
    /\ op' = "collection"
    /\ StartRequest(CollectionUrl(user))
    /\ UNCHANGED <<ids, chunk, games, data, outcome, chunkRecords, pollVars>>

\* Mutant: a failing parse is caught and an empty collection returned.
ExtractCollectionSwallow ==
    /\ pc = "extract" /\ op = "collection"
    /\ LET r == CollectionToGames(data)
       IN  /\ pc' = "done"
           /\ data' = NoBody
           /\ outcome' = IF r.ok THEN Return(r.value) ELSE Return(<<>>)
    /\ UNCHANGED <<op, ids, chunk, games, requests, chunkRecords, lastEvent,
                   received, frameVars, pollVars>>

\* collection, from the return of _make_request on
ExtractCollection ==
    /\ pc = "extract" /\ op = "collection"
    /\ LET r == CollectionToGames(data)
       IN  /\ pc' = "done"
           /\ data' = NoBody
           /\ outcome' = IF r.ok THEN Return(r.value)
                         ELSE Raise(r.exc, None, 0, NoUrl, <<>>)
    /\ UNCHANGED <<op, ids, chunk, games, requests, chunkRecords, lastEvent,
                   received, frameVars, pollVars>>

\* game_list, up to its for loop
CallGameList(game_ids) ==
    /\ pc = "idle"
    /\ op' = "game_list"
    /\ ids' = game_ids
    /\ UNCHANGED <<chunk, games, data, requests, chunkRecords, lastEvent, received,
                   frameVars, pollVars>>
    /\ IF game_ids = <<>>
       THEN pc' = "done" /\ outcome' = Return(<<>>)
       ELSE pc' = "loop" /\ outcome' = outcome

\* The head of game_list's for loop: the next chunk's request, or the return
\* of the accumulator when the generator is exhausted.
GameListLoop ==
    /\ pc = "loop"
    /\ UNCHANGED <<op, ids, games, data, chunkRecords, pollVars>>
    /\ IF HasChunk(ids, ChunkSize, chunk + 1)
       THEN /\ chunk' = chunk + 1
            /\ StartRequest(ThingUrl(Chunk(ids, ChunkSize, chunk + 1)))
            /\ UNCHANGED outcome
       ELSE /\ pc' = "done"
            /\ outcome' = Return(games)
            /\ UNCHANGED <<chunk, requests, lastEvent, received, frameVars>>

\* Mutant: a chunk whose extraction fails is skipped and the loop goes on.
ExtractGamesSkip ==
    /\ pc = "extract" /\ op = "game_list"
    /\ data' = NoBody
    /\ pc' = "loop"
    /\ LET r == GamesListToGames(data)
       IN  IF r.ok
           THEN /\ games' = games \o r.value
                /\ chunkRecords' = Append(chunkRecords, r.value)
           ELSE UNCHANGED <<games, chunkRecords>>
    /\ UNCHANGED <<op, ids, chunk, outcome, requests, lastEvent, received, frameVars,
                   pollVars>>

\* games += self._games_list_to_games(data)
ExtractGames ==
    /\ pc = "extract" /\ op = "game_list"
    /\ data' = NoBody
    /\ LET r == GamesListToGames(data)
       IN  IF r.ok
           THEN /\ pc' = "loop"
                /\ games' = games \o r.value
                /\ chunkRecords' = Append(chunkRecords, r.value)
                /\ UNCHANGED outcome
           ELSE /\ pc' = "done"
                /\ outcome' = Raise(r.exc, None, 0, NoUrl, <<>>)
                /\ UNCHANGED <<games, chunkRecords>>
    /\ UNCHANGED <<op, ids, chunk, requests, lastEvent, received, frameVars, pollVars>>

Next ==
    \/ CallExecute
    \/ \E user \in Users : CallCollection(user)
    \/ \E game_ids \in IdLists : CallGameList(game_ids)
    \/ GameListLoop
    \/ ConnectionFails
    \/ \E s \in Statuses : StatusResponse(s)
    \/ \E body \in Bodies : OkResponse(body)
    \/ ExtractCollection
    \/ ExtractGames

Spec == Init /\ [][Next]_vars

\* _make_request alone, under every sequence of transport outcomes.
ExecNext ==
    \/ CallExecute
    \/ ConnectionFails
    \/ \E s \in Statuses : StatusResponse(s)
    \/ \E body \in Bodies : OkResponse(body)

\* The code is single-threaded and synchronous and requester.get always comes
\* back, with a response or an exception: a call that can step does step.
ExecFairSpec == Init /\ [][ExecNext]_vars /\ WF_vars(ExecNext)

\* ------------------------------------------------ the poll hooks alone
\* The two after_parse hooks of the suggested_numplayers array, applied to
\* the groups of one item: numplayers_to_result as each group is parsed,
\* suggested_numplayers once the array is complete.

\* The result elements of a group that lists the categories in listed with
\* these votes.
Listing(b, r, n, listed) ==
    (IF "best" \in listed THEN <<Result(ValueBest, b)>> ELSE <<>>)
        \o (IF "recommended" \in listed THEN <<Result(ValueRecommended, r)>> ELSE <<>>)
        \o (IF "not_recommended" \in listed
            THEN <<Result(ValueNotRecommended, n)>> ELSE <<>>)

Listings ==
    {Listing(b, r, n, listed) :
        b \in 0..MaxVotes, r \in 0..MaxVotes, n \in 0..MaxVotes,
        listed \in SUBSET {"best", "recommended", "not_recommended"}}

\* Result lists for the groups of a longer poll: the rows of the
\* classification table, the best > 10 boundary, other spellings, a repeated
\* category and a partial listing.
SampleListings ==
    { Votes(15, 2, 1), Votes(3, 4, 1), Votes(0, 1, 5), Votes(0, 0, 0),
      Votes(11, 10, 0), Votes(10, 2, 0),
      <<Result(<<"N","O","T"," ","R","E","C","O","M","M","E","N","D","E","D">>, 1),
        Result(<<"b","e","s","t">>, 12), Result(ValueRecommended, 3)>>,
      <<Result(ValueBest, 0), Result(ValueRecommended, 0),
        Result(ValueNotRecommended, 9), Result(ValueBest, 12)>>,
      <<Result(ValueBest, 12), Result(ValueRecommended, 1)>> }

NumplayersLabels == <<"1", "2", "3", "4", "5", "6", "7", "8+">>

PollInputs ==
    {<<Group(NumplayersLabels[1], l)>> : l \in Listings}
        \cup UNION {{[i \in 1..k |-> Group(NumplayersLabels[i], ls[i])] :
                        ls \in [1..k -> SampleListings]} : k \in 0..MaxGroups}

PollInit ==
    /\ CallIdle
    /\ pollIn \in PollInputs
    /\ pollParsed = <<>>
    /\ pollOut = None
    /\ pollPc = "groups"

\* The parse of the next group: its results array goes through
\* numplayers_to_result; a KeyError leaves the parse.
ParseGroup ==
    /\ pollPc = "groups"
    /\ Len(pollParsed) < Len(pollIn)
    /\ LET g == pollIn[Len(pollParsed) + 1]
           result == NumplayersToResult(g.results)
       IN  IF result = "KeyError"
           THEN /\ pollPc' = "raised"
                /\ pollOut' = "KeyError"
                /\ UNCHANGED pollParsed
           ELSE /\ pollParsed' = Append(pollParsed,
                                        [numplayers |-> g.numplayers, result |-> result])
                /\ UNCHANGED <<pollPc, pollOut>>
    /\ UNCHANGED <<pollIn, callVars, frameVars>>

\* The array is complete: its suggested_numplayers hook runs.
SuggestHook ==
    /\ pollPc = "groups"
    /\ Len(pollParsed) = Len(pollIn)
    /\ pollOut' = SuggestedNumplayers(pollParsed)
    /\ pollPc' = "done"
    /\ UNCHANGED <<pollIn, pollParsed, callVars, frameVars>>

PollNext == ParseGroup \/ SuggestHook

PollSpec == PollInit /\ [][PollNext]_vars

\* ------------------------------------------------------------ properties

Raised == pc = "done" /\ outcome.kind = "raise"
Returned == pc = "done" /\ outcome.kind = "return"
StatusFailure(s) ==
    /\ Raised
    /\ outcome.exc = "BGGException" /\ outcome.msg = "status_code"
    /\ outcome.status = s /\ outcome.url = url

\* A step of _make_request in which requester.get was called.
AttemptStep == pc = "request" /\ attempts' = attempts + 1
\* An attempt after which _make_request calls itself again.
RetryStep == AttemptStep /\ pc' = "request"

\* C1: while every attempt of a _make_request call has been answered 202, the
\* call has made at most 11 attempts, has retried after each of the first 10
\* with a 5 second wait, and after the 11th it has raised the status failure
\* for 202 instead of retrying or returning.
C1_AcceptedCap ==
    (pc \in {"request", "done"} /\ attempts > 0 /\ n202 = attempts) =>
        /\ attempts <= 11
        /\ tries = (IF attempts <= 10 THEN attempts ELSE 10)
        /\ slept = 5 * tries
        /\ (attempts <= 10 => pc = "request")
        /\ (attempts = 11 => StatusFailure(202))

C1_Witness == pc = "done" /\ attempts = 11 /\ n202 = 11 /\ tries = 10 /\ Raised

\* C2 as claimed: an attempt that fails in one class is retried whenever
\* fewer failures of that same class than the class's cap came before it in
\* the call, whatever the other classes spent.
C2_PerClassCaps ==
    [][AttemptStep =>
        /\ (lastEvent' = "ConnectionError" /\ nConn < 3 => pc' = "request")
        /\ (lastEvent' = "540" /\ n540 < 3 => pc' = "request")
        /\ (lastEvent' = "202" /\ n202 < 10 => pc' = "request")]_vars

\* C2 as amended: the caps are thresholds on the one counter every retry of
\* the call increments: a connection failure or a 540 is retried exactly when
\* fewer than 3 retries of any class were made before it, a 202 exactly when
\* fewer than 10 were.
C2_SharedCounter ==
    [][AttemptStep =>
        LET spent == nConn + n202 + n540
        IN  /\ tries = spent
            /\ (lastEvent' = "ConnectionError" => (pc' = "request" <=> spent < 3))
            /\ (lastEvent' = "540" => (pc' = "request" <=> spent < 3))
            /\ (lastEvent' = "202" => (pc' = "request" <=> spent < 10))]_vars

\* A connection failure that was the first of its call and was not retried,
\* because three 202 responses had used the counter up.
C2_Witness ==
    Raised /\ lastEvent = "ConnectionError" /\ nConn = 1 /\ n202 = 3 /\ n540 = 0

C10_Bounded ==
    /\ tries <= 10 /\ attempts <= 11
    /\ (pc = "request" => attempts = tries)
    /\ (pc = "done" /\ attempts > 0 => attempts = tries + 1)

\* C10: the attempt counter of a _make_request call starts at 0, equals the
\* retries made, grows by exactly 1 on every retry of any class and never
\* passes 10, so that at most 11 attempts are made; and every call leaves
\* _make_request, with a body returned or a failure raised.
C10_Terminates ==
    /\ []C10_Bounded
    /\ [][RetryStep => tries' = tries + 1 /\ url' = url]_vars
    /\ (pc = "request") ~> (pc # "request")
    /\ <>(pc = "done")

\* Ten retries of mixed classes, then a body returned at the 11th attempt.
C10_Witness ==
    /\ Returned /\ op = "execute" /\ attempts = 11 /\ tries = 10
    /\ nConn = 1 /\ n540 = 1 /\ n202 = 8

CeilDiv(n, d) == (n + d - 1) \div d

RecordIds(records) == [i \in DOMAIN records |-> records[i].id]

\* C3: game_list makes one _make_request call per consecutive chunk of at
\* most 100 ids, in order and one at a time, ceil(N/100) of them by the time it
\* returns; what it returns is the concatenation of the chunks' records in
\* chunk order, so the ids come out in the order they went in; for the empty
\* list it returns the empty list without any request.
C3_Batches ==
    op = "game_list" =>
        LET N == Len(ids)
        IN  /\ Len(requests) <= CeilDiv(N, 100)
            /\ Len(requests) = chunk
            /\ Len(requests) - Len(chunkRecords) \in {0, 1}
            /\ \A k \in DOMAIN requests :
                  /\ Len(requests[k].ids) = (IF 100 * k <= N THEN 100 ELSE N - 100 * (k - 1))
                  /\ \A j \in DOMAIN requests[k].ids :
                        requests[k].ids[j] = ids[100 * (k - 1) + j]
            /\ Returned =>
                  /\ Len(requests) = CeilDiv(N, 100)
                  /\ Len(chunkRecords) = CeilDiv(N, 100)
                  /\ outcome.value = Flatten(chunkRecords)
                  /\ (Len(outcome.value) = N => RecordIds(outcome.value) = ids)
                  /\ (N = 0 => /\ outcome.value = <<>> /\ requests = <<>>
                               /\ attempts = 0 /\ lastEvent = "none")

\* Three chunks fetched, the last of one id, every id answered.
C3_Witness ==
    /\ op = "game_list" /\ Returned /\ Len(ids) = 2 * ChunkSize + 1
    /\ Len(requests) = 3 /\ Len(requests[3].ids) = 1
    /\ Len(outcome.value) = Len(ids) /\ ids[1] # 1

FailureOfLastAttempt ==
    IF lastEvent = "ConnectionError"
    THEN outcome.exc = "BGGException" /\ outcome.msg = "closed_connection"
    ELSE IF lastEvent = "200"
    THEN IF received.wellformed /\ received.tag = "errors"
         THEN outcome.exc = "BGGException" /\ outcome.msg = "errors"
         ELSE outcome.exc \in {"ParseError", "MissingValue", "KeyError"}
    ELSE /\ outcome.exc = "BGGException" /\ outcome.msg = "status_code"
         /\ ToString(outcome.status) = lastEvent
         /\ outcome.url = requests[chunk]

\* The state part of C4.
C4_Stopped ==
    op = "game_list" =>
        /\ Len(requests) - Len(chunkRecords) \in {0, 1}
        /\ games = Flatten(chunkRecords)
        /\ Raised =>
              /\ Len(requests) = chunk
              /\ Len(chunkRecords) = chunk - 1
              /\ FailureOfLastAttempt
        /\ Returned => Len(chunkRecords) = CeilDiv(Len(ids), 100)

\* C4: when the request or the extraction of a chunk fails, game_list ends
\* there with that failure: every earlier chunk was extracted, the failing one
\* was not, no later chunk is ever requested, nothing is returned, and a
\* return happens only after every chunk was extracted.
C4_AbortOnFailure ==
    /\ []C4_Stopped
    /\ [][pc = "done" => pc' = "done" /\ requests' = requests /\ outcome' = outcome]_vars

\* The extraction of the second of three chunks failed after the first
\* chunk's 100 records had been accumulated.
C4_Witness ==
    /\ op = "game_list" /\ Raised /\ outcome.exc = "MissingValue"
    /\ Len(ids) > 2 * ChunkSize /\ chunk = 2 /\ Len(games) = ChunkSize
    /\ Len(requests) = 2

RECURSIVE LeafTextsOf(_)
\* The texts of the leaf elements at or below element e.
LeafTextsOf(e) ==
    IF e.kids = <<>>
    THEN IF e.text = None THEN {} ELSE {e.text}
    ELSE UNION {LeafTextsOf(e.kids[i]) : i \in DOMAIN e.kids}

DocLeafTexts(doc) == UNION {LeafTextsOf(doc.kids[i]) : i \in DOMAIN doc.kids}

RECURSIVE GrandchildrenBefore(_, _)
\* The number of elements two levels below the root that precede the
\* children of the root's n-th child.
GrandchildrenBefore(doc, n) ==
    IF n <= 1 THEN 0
    ELSE GrandchildrenBefore(doc, n - 1) + Len(doc.kids[n - 1].kids)

ErrorsReceived == lastEvent = "200" /\ received.wellformed /\ received.tag = "errors"

ErrorsFailure ==
    /\ Raised
    /\ outcome.exc = "BGGException" /\ outcome.msg = "errors"
    /\ outcome.url = url

KindOf(f) ==
    IF f.exc = "BGGException"
    THEN IF f.msg = "closed_connection" THEN "TransportError"
         ELSE IF f.msg = "status_code" THEN "HTTPError"
         ELSE IF f.msg = "errors" THEN "APIError"
         ELSE "unknown"
    ELSE IF f.exc \in {"ParseError", "MissingValue", "InvalidPrimitiveValue", "KeyError"}
    THEN "ParseError"
    ELSE "unknown"

ListsCategory(results, key) ==
    \E i \in DOMAIN results : NormaliseValue(results[i].value) = key

\* The received items are not what the processor of the call expects.
PayloadBad ==
    IF op = "collection"
    THEN \E i \in DOMAIN received.kids :
            \/ received.kids[i].numplays = <<>>
            \/ \E j \in DOMAIN received.kids[i].numplays :
                  received.kids[i].numplays[j] \notin Range(Digits)
    ELSE IF op = "game_list"
    THEN \E i \in DOMAIN received.kids :
            \/ \E f \in RequiredFields : f \notin received.kids[i].fields
            \/ \E g \in DOMAIN received.kids[i].groups :
                  LET results == received.kids[i].groups[g].results
                  IN  /\ results # <<>>
                      /\ \E key \in {KeyBest, KeyRecommended, KeyNotRecommended} :
                            ~ListsCategory(results, key)
    ELSE FALSE

\* What went wrong in the call, by what the transport and the server did.
Happened ==
    IF lastEvent = "ConnectionError" THEN "TransportError"
    ELSE IF lastEvent = "none" THEN "nothing"
    ELSE IF lastEvent # "200" THEN "HTTPError"
    ELSE IF ~received.wellformed THEN "ParseError"
    ELSE IF received.tag = "errors" THEN "APIError"
    ELSE IF PayloadBad THEN "ParseError"
    ELSE "nothing"

ListedVotes(results, key) ==
    IF ListsCategory(results, key)
    THEN results[CHOOSE i \in DOMAIN results :
                    /\ NormaliseValue(results[i].value) = key
                    /\ \A j \in DOMAIN results :
                          NormaliseValue(results[j].value) = key => j <= i].numvotes
    ELSE 0

RuleClass(results) ==
    LET best == ListedVotes(results, KeyBest)
        recommended == ListedVotes(results, KeyRecommended)
        not_recommended == ListedVotes(results, KeyNotRecommended)
    IN  IF best + recommended <= not_recommended THEN "not_recommended"
        ELSE IF best > 10 /\ best > recommended THEN "best"
        ELSE "recommended"

\* C5: every group is classified, by the rule applied to its votes with an
\* unlisted category counting 0; no listing makes the hook raise.
C5_Classification ==
    /\ pollPc # "raised"
    /\ \A i \in DOMAIN pollParsed :
          pollParsed[i].result = RuleClass(pollIn[i].results)

Survivors == {i \in DOMAIN pollParsed : pollParsed[i].result # "not_recommended"}
\* The index in pollParsed of the k-th survivor.
Survivor(k) ==
    CHOOSE i \in Survivors : Cardinality({j \in Survivors : j <= i}) = k

\* C6: the list suggested_numplayers gives is the groups not classified
\* not_recommended, as (count, classification) pairs in document order, none
\* of them not_recommended; a sole survivor is best whatever the rule gave it,
\* and two or more survivors keep the rule's classification.
C6_FilterThenOverride ==
    pollPc = "done" =>
        /\ Len(pollOut) = Cardinality(Survivors)
        /\ \A k \in DOMAIN pollOut :
              /\ pollOut[k][1] = pollIn[Survivor(k)].numplayers
              /\ pollOut[k][2] # "not_recommended"
              /\ pollOut[k][2] = (IF Cardinality(Survivors) = 1 THEN "best"
                                  ELSE RuleClass(pollIn[Survivor(k)].results))

\* Two groups, the first filtered out, the second recommended by the rule
\* and best in the list.
C6_Witness ==
    /\ pollPc = "done" /\ Len(pollIn) = 2
    /\ pollParsed[1].result = "not_recommended"
    /\ pollParsed[2].result = "recommended"
    /\ pollOut = <<<<"2", "best">>>>

====
